---------------------------- MODULE Spec2Model ----------------------------
(***************************************************************************)
(* Model of src/py_scripts/train_android.py: the padded-batch collation    *)
(* (collate_feat), the validation evaluator (test_eval) and the training   *)
(* loop of main.                                                           *)
(*                                                                         *)
(* Three specifications share the variables:                               *)
(*   SpecCollate  collate_feat applied to one batch of samples             *)
(*   SpecEval     one call of test_eval on a validation loader             *)
(*   Spec         main, from the network's construction to log_model       *)
(*   FairSpec     Spec with weak fairness: the single control thread keeps *)
(*                executing the next statement                             *)
(*                                                                         *)
(* Abstractions: a tensor of feature rows is a sequence of row values (the *)
(* feature dimension D is not modelled, a padded row is the value 0); the  *)
(* network's parameters are the number of optimizer steps applied to them; *)
(* floating point losses and errors are integers.  Python indices start at *)
(* 0, the sequences here at 1: "l >= L_i" of the code reads "l > L_i".     *)
(***************************************************************************)
EXTENDS Integers, Sequences, FiniteSets, TLC

VARIABLES
    pc,             \* position of the control thread
    batch,          \* collate_feat: its argument, a list of samples
    collated,       \* collate_feat: its return value (retval, pad_mask)
    val_batches,    \* len(val_loader): batches one pass of the source yields
    generator,      \* test_eval: batches the current iterator has yielded
    eval_i,         \* test_eval: iterations of range(100) completed
    stats_val,      \* test_eval: one entry per evaluated batch (its index)
    loss_val,       \* test_eval: accumulated loss
    eval_ret,       \* test_eval: returned (mean_acc score, loss_val, len(stats_val))
    eval_modes,     \* net.training at each forward pass of the current test_eval
    model_name,     \* config.model_name
    writer,         \* config.writer
    N_train_epochs, \* config.N_train_epochs
    train_batches,  \* len(dataloader): batches of one training pass
    net,            \* the constructed network, "none" before line 110/112
    net_training,   \* net.training (set by net.train() / net.eval())
    params,         \* optimizer steps applied to the parameters
    epoch,          \* epochs completed (the loop variable of line 132)
    batch_i,        \* training batches of this epoch completed
    ops,            \* the steps done on the current training batch, in order
    train_log,      \* this epoch's training batches, each with its steps
    train_modes,    \* net.training at each training forward pass of this epoch
    count,          \* line 124/149
    min_acc,        \* line 131/165
    saved,          \* the checkpoint file: params saved last, -1 if none
    scores,         \* per epoch, np.sum(mean_acc)
    ckpt_writes,    \* per epoch, whether torch.save ran
    remote,         \* metrics sent to mlflow, counted per name
    local,          \* metrics sent to the SummaryWriter, counted per name
    eval_calls,     \* invocations of test_eval by main
    artifact,       \* calls of mlflow.pytorch.log_model
    error           \* the exception that ended the run, "none" if none

vars == << pc, batch, collated, val_batches, generator, eval_i, stats_val,
           loss_val, eval_ret, eval_modes, model_name, writer, N_train_epochs,
           train_batches, net, net_training, params, epoch, batch_i, ops,
           train_log, train_modes, count, min_acc, saved, scores, ckpt_writes, remote,
           local, eval_calls, artifact, error >>

collateVars == << batch, collated >>
evalVars == << val_batches, generator, eval_i, stats_val, loss_val, eval_ret,
               eval_modes >>
mainVars == << model_name, writer, N_train_epochs, train_batches, net,
               net_training, params, epoch, batch_i, ops, train_log,
               train_modes, count,
               min_acc, saved, scores, ckpt_writes, remote, local, eval_calls,
               artifact, error >>

-----------------------------------------------------------------------------
(* Bounds of the model *)

\* samples in a batch
MaxBatchSize == 3
\* rows of a sample's feature sequence
MaxSeqLen == 3
\* batches of the validation loader, test_eval alone
MaxValBatches == 101
\* batches of the validation loader, in main
MaxMainValBatches == 2
\* batches of the training loader
MaxTrainBatches == 2
\* config.N_train_epochs
MaxEpochs == 3
\* len(mean_acc[0]): length of the correction vector
NumDims == 2

(* Program constants *)

\* range(100) of test_eval
EvalIters == 100
\* min_acc = 1000000
InitMinAcc == 1000000

\* the values np.sum(mean_acc) takes in the model
Scores == {49, 50, 60, InitMinAcc}

SupportedModels == {"set_transformer", "deepsets"}
ModelNames == SupportedModels \cup {"lstm"}

RECURSIVE SumSeq(_)
SumSeq(s) == IF s = << >> THEN 0 ELSE s[1] + SumSeq(Tail(s))

SeqMax(s) ==
    IF s = << >> THEN 0
    ELSE CHOOSE m \in {s[i] : i \in 1..Len(s)} : \A i \in 1..Len(s) : s[i] <= m

-----------------------------------------------------------------------------
(* collate_feat *)

\* x['features'].shape[0]
SeqLen(x) == Len(x.features)

\* The sample given at position tag of the input list, with len rows.  Its
\* rows, its true_correction and its guess carry the tag, so that the output
\* shows where each sample went.
Sample(tag, len) ==
    [features |-> [r \in 1..len |-> tag],
     true_correction |-> 10 + tag,
     guess |-> 20 + tag]

InsertUnstable(t, x) ==
    LET Gt(y) == SeqLen(y) > SeqLen(x)
        Le(y) == SeqLen(y) <= SeqLen(x)
    IN  SelectSeq(t, Gt) \o << x >> \o SelectSeq(t, Le)

\* sorted(..., reverse=True) keeps equal keys in their input order: a sample
\* goes behind every sample already placed whose key is not smaller.
Insert(t, x) ==
    LET Ge(y) == SeqLen(y) >= SeqLen(x)
        Lt(y) == SeqLen(y) < SeqLen(x)
    IN  SelectSeq(t, Ge) \o << x >> \o SelectSeq(t, Lt)

RECURSIVE SortedBatch(_)
SortedBatch(b) ==
    IF b = << >> THEN << >>
    ELSE Insert(SortedBatch(SubSeq(b, 1, Len(b) - 1)), b[Len(b)])

\* torch.nn.utils.rnn.pad_sequence(features): [L_max][N], zero rows behind
\* each sequence's own rows
PadSequence(features) ==
    LET L == SeqMax([i \in 1..Len(features) |-> Len(features[i])])
    IN  [l \in 1..L |->
            [n \in 1..Len(features) |->
                IF l <= Len(features[n]) THEN features[n][l] ELSE 0]]

PadMaskOffByOne(features, N, L) ==
    [i \in 1..N |-> [l \in 1..L |-> l >= Len(features[i])]]

\* np.zeros((N, L)); pad_mask[i, len(x):] = 1; .bool()
PadMask(features, N, L) ==
    [i \in 1..N |-> [l \in 1..L |-> l > Len(features[i])]]

CollateFeat(b) ==
    LET sorted_batch == SortedBatch(b)
        features == [i \in 1..Len(sorted_batch) |-> sorted_batch[i].features]
        features_padded == PadSequence(features)
        L == Len(features_padded)
        N == Len(features)
    IN  [features |-> features_padded,
         true_correction |->
            [i \in 1..Len(sorted_batch) |-> sorted_batch[i].true_correction],
         guess |-> [i \in 1..Len(sorted_batch) |-> sorted_batch[i].guess],
         pad_mask |-> PadMask(features, N, L)]

NoBatch == [features |-> << >>, true_correction |-> << >>, guess |-> << >>,
            pad_mask |-> << >>]

Collate ==
    /\ pc = "collate"
    /\ collated' = CollateFeat(batch)
    /\ pc' = "collated"
    /\ UNCHANGED << batch, evalVars, mainVars >>

\* the data loader hands the next list of samples to collate_fn
NextBatch ==
    /\ pc = "collated"
    /\ \E n \in 1..MaxBatchSize :
         \E lens \in [1..n -> 0..MaxSeqLen] :
            batch' = [i \in 1..n |-> Sample(i, lens[i])]
    /\ collated' = NoBatch
    /\ pc' = "collate"
    /\ UNCHANGED << evalVars, mainVars >>

-----------------------------------------------------------------------------
(* test_eval *)

\* loss_func(pred_correction, y) of validation batch b (an index from 0)
Loss(b) == b + 1

NoRet == [score |-> 0, loss_sum |-> 0, n |-> 0]

\* stats_val = []; loss_val = 0; generator = iter(val_loader)
TestEvalStart ==
    /\ pc = "test_eval"
    /\ stats_val' = << >>
    /\ loss_val' = 0
    /\ generator' = 0
    /\ eval_i' = 0
    /\ eval_modes' = << >>
    /\ eval_ret' = NoRet
    /\ eval_calls' = eval_calls + 1
    /\ pc' = "eval_iter"
    /\ UNCHANGED << collateVars, val_batches, model_name, writer,
                    N_train_epochs, train_batches, net, net_training, params,
                    epoch, batch_i, ops, train_log, train_modes, count,
                    min_acc, saved, scores, ckpt_writes, remote, local,
                    artifact, error >>

\* One forward pass on validation batch b, the generator left at g.
EvalBatch(b, g) ==
    /\ generator' = g
    /\ eval_modes' = Append(eval_modes, net_training)
    /\ loss_val' = loss_val + Loss(b)
    /\ stats_val' = Append(stats_val, b)
    /\ eval_i' = eval_i + 1
    /\ UNCHANGED << pc, error >>

\* The StopIteration of the second next() leaves test_eval and main.
EvalRaise ==
    /\ generator' = 0
    /\ pc' = "failed"
    /\ error' = "StopIteration"
    /\ UNCHANGED << eval_modes, loss_val, stats_val, eval_i >>

NextOrRaise ==
    IF generator < val_batches
    THEN EvalBatch(generator, generator + 1)
    ELSE EvalRaise

\* try: next(generator); except StopIteration: a new iterator and its first
\* batch.  The validation loader does not shuffle: every pass yields the
\* batches 0 .. val_batches-1 in this order.
NextOrRestart ==
    IF generator < val_batches
    THEN EvalBatch(generator, generator + 1)
    ELSE IF val_batches > 0
         THEN EvalBatch(0, 1)
         ELSE EvalRaise

\* one iteration of "for i in range(100)"
EvalIter ==
    /\ pc = "eval_iter"
    /\ eval_i < EvalIters
    /\ NextOrRestart
    /\ UNCHANGED << collateVars, val_batches, eval_ret, model_name, writer,
                    N_train_epochs, train_batches, net, net_training, params,
                    epoch, batch_i, ops, train_log, train_modes, count,
                    min_acc, saved, scores, ckpt_writes, remote, local,
                    eval_calls, artifact >>

\* return np.mean(np.abs(np.array(stats_val)), axis=0), loss_val/len(stats_val)
\* The errors depend on the network's predictions: their sum is any of Scores.
\* The quotient is kept as its numerator and its denominator.
EvalReturn ==
    /\ pc = "eval_iter"
    /\ eval_i = EvalIters
    /\ \E s \in Scores :
         eval_ret' = [score |-> s, loss_sum |-> loss_val, n |-> Len(stats_val)]
    /\ pc' = "eval_return"
    /\ UNCHANGED << collateVars, val_batches, generator, eval_i, stats_val,
                    loss_val, eval_modes, mainVars >>

-----------------------------------------------------------------------------
(* main *)

NoMetrics == [train_loss |-> 0, test_loss |-> 0, test_acc |-> 0]

Fail(e) ==
    /\ pc' = "failed"
    /\ error' = e

AnyModelIsDeepsets ==
    IF train_batches = 0
    THEN /\ Fail("IndexError")
         /\ UNCHANGED net
    ELSE /\ net' = IF model_name = "set_transformer" THEN model_name ELSE "deepsets"
         /\ pc' = "epoch_head"
         /\ UNCHANGED error

\* if config.model_name == "set_transformer": ... elif "deepsets": ... else:
\* raise ValueError.  Both constructors read train_set[0], an IndexError on
\* an empty training partition (the loader yields no batch exactly then).
SelectModel ==
    IF model_name \in SupportedModels
    THEN IF train_batches = 0
         THEN /\ Fail("IndexError")
              /\ UNCHANGED net
         ELSE /\ net' = model_name
              /\ pc' = "epoch_head"
              /\ UNCHANGED error
    ELSE /\ Fail("ValueError")
         /\ UNCHANGED net

\* lines 108-131: the network, the optimizer, count = 0, min_acc = 1000000;
\* an exception of the model selection leaves main before lines 116-131.
\* config.resume only replaces the initial parameter values, which the count
\* of updates in params does not tell apart.
InitNetwork ==
    /\ pc = "start"
    /\ SelectModel
    /\ count' = 0
    /\ min_acc' = IF pc' = "failed" THEN min_acc ELSE InitMinAcc
    /\ UNCHANGED << collateVars, evalVars, model_name, writer, N_train_epochs,
                    train_batches, net_training, params, epoch, batch_i, ops,
                    train_log, train_modes, saved, scores, ckpt_writes,
                    remote, local, eval_calls, artifact >>

OneEpochMore == epoch <= N_train_epochs

\* for epoch in range(config.N_train_epochs)
MoreEpochs == epoch < N_train_epochs

EpochHead ==
    /\ pc = "epoch_head"
    /\ pc' = IF MoreEpochs THEN "train_mode" ELSE "log_model"
    /\ UNCHANGED << collateVars, evalVars, mainVars >>

NetTrainFirstEpochOnly == net_training' = IF epoch = 0 THEN TRUE ELSE net_training

\* net.train()
NetTrain == net_training' = TRUE

TrainMode ==
    /\ pc = "train_mode"
    /\ NetTrain
    /\ batch_i' = 0
    /\ train_log' = << >>
    /\ train_modes' = << >>
    /\ pc' = "batch_head"
    /\ UNCHANGED << collateVars, evalVars, model_name, writer, N_train_epochs,
                    train_batches, net, params, epoch, ops, count, min_acc,
                    saved, scores, ckpt_writes, remote, local, eval_calls,
                    artifact, error >>

\* for i, sample_batched in enumerate(dataloader)
BatchHead ==
    /\ pc = "batch_head"
    /\ IF batch_i < train_batches
       THEN /\ ops' = << >>
            /\ pc' = "forward"
       ELSE /\ pc' = "eval_mode"
            /\ UNCHANGED ops
    /\ UNCHANGED << collateVars, evalVars, model_name, writer, N_train_epochs,
                    train_batches, net, net_training, params, epoch, batch_i,
                    train_log, train_modes, count, min_acc, saved, scores,
                    ckpt_writes, remote, local, eval_calls, artifact, error >>

\* a step of the batch's body that changes only ops and pc
BatchStep(at, op, to) ==
    /\ pc = at
    /\ ops' = Append(ops, op)
    /\ pc' = to
    /\ UNCHANGED << collateVars, evalVars, model_name, writer, N_train_epochs,
                    train_batches, net, net_training, epoch, min_acc, saved,
                    scores, ckpt_writes, eval_calls, artifact, error >>

\* pred_correction = net(x, pad_mask=pad_mask)
Forward ==
    /\ BatchStep("forward", "forward", "loss")
    /\ train_modes' = Append(train_modes, net_training)
    /\ UNCHANGED << params, remote, local, count, batch_i, train_log >>

\* loss = loss_func(pred_correction, y)
ComputeLoss ==
    /\ BatchStep("loss", "loss", "log_train")
    /\ UNCHANGED << train_modes, params, remote, local, count, batch_i,
                    train_log >>

\* mlflow.log_metrics({"train_loss": loss}); if config.writer:
\* writer.add_scalar("Loss/train", loss, count); count += 1
LogTrainLoss ==
    /\ BatchStep("log_train", "log", "zero_grad")
    /\ remote' = [remote EXCEPT !.train_loss = @ + 1]
    /\ local' = IF writer THEN [local EXCEPT !.train_loss = @ + 1] ELSE local
    /\ count' = count + 1
    /\ UNCHANGED << train_modes, params, batch_i, train_log >>

\* optimizer.zero_grad()
ZeroGrad ==
    /\ BatchStep("zero_grad", "zero_grad", "backward")
    /\ UNCHANGED << train_modes, params, remote, local, count, batch_i,
                    train_log >>

\* loss.backward()
Backward ==
    /\ BatchStep("backward", "backward", "step")
    /\ UNCHANGED << train_modes, params, remote, local, count, batch_i,
                    train_log >>

StepTwice == params' = params + 2

\* optimizer.step(): one update of the parameters
ApplyStep == params' = params + 1

OptimizerStep ==
    /\ BatchStep("step", "step", "batch_head")
    /\ ApplyStep
    /\ train_log' = Append(train_log, [batch |-> batch_i, ops |-> ops'])
    /\ batch_i' = batch_i + 1
    /\ UNCHANGED << train_modes, remote, local, count >>

\* net.eval(), then the call of test_eval
EvalMode ==
    /\ pc = "eval_mode"
    /\ net_training' = FALSE
    /\ pc' = "test_eval"
    /\ UNCHANGED << collateVars, evalVars, model_name, writer, N_train_epochs,
                    train_batches, net, params, epoch, batch_i, ops,
                    train_log, train_modes, count, min_acc, saved, scores,
                    ckpt_writes, remote, local, eval_calls, artifact, error >>

\* lines 157-163: both the writer's and mlflow's calls stand under
\* "if config.writer"; the loop over j runs len(mean_acc[0]) times
LogTestMetrics ==
    /\ pc = "eval_return"
    /\ IF writer
       THEN /\ local' = [local EXCEPT !.test_loss = @ + 1,
                                      !.test_acc = @ + NumDims]
            /\ remote' = [remote EXCEPT !.test_loss = @ + 1,
                                        !.test_acc = @ + NumDims]
       ELSE UNCHANGED << local, remote >>
    /\ pc' = "checkpoint"
    /\ UNCHANGED << collateVars, evalVars, model_name, writer, N_train_epochs,
                    train_batches, net, net_training, params, epoch, batch_i,
                    ops, train_log, train_modes, count, min_acc, saved,
                    scores, ckpt_writes, eval_calls, artifact, error >>

\* np.sum(mean_acc) < min_acc
Improves(score) == score < min_acc

\* lines 164-167: the checkpoint decision, the end of the epoch
Checkpoint ==
    /\ pc = "checkpoint"
    /\ IF Improves(eval_ret.score)
       THEN /\ min_acc' = eval_ret.score
            /\ saved' = params
       ELSE UNCHANGED << min_acc, saved >>
    /\ ckpt_writes' = Append(ckpt_writes, Improves(eval_ret.score))
    /\ scores' = Append(scores, eval_ret.score)
    /\ epoch' = epoch + 1
    /\ pc' = "epoch_head"
    /\ UNCHANGED << collateVars, evalVars, model_name, writer, N_train_epochs,
                    train_batches, net, net_training, params, batch_i, ops,
                    train_log, train_modes, count, remote, local, eval_calls,
                    artifact, error >>

\* mlflow.pytorch.log_model(net, "model", ...)
LogModel ==
    /\ pc = "log_model"
    /\ artifact' = artifact + 1
    /\ pc' = "done"
    /\ UNCHANGED << collateVars, evalVars, model_name, writer, N_train_epochs,
                    train_batches, net, net_training, params, epoch, batch_i,
                    ops, train_log, train_modes, count, min_acc, saved,
                    scores, ckpt_writes, remote, local, eval_calls, error >>

-----------------------------------------------------------------------------
(* Specifications *)

IdleCollate ==
    /\ batch = << >>
    /\ collated = NoBatch

IdleEval ==
    /\ generator = 0
    /\ eval_i = 0
    /\ stats_val = << >>
    /\ loss_val = 0
    /\ eval_ret = NoRet
    /\ eval_modes = << >>

IdleMain ==
    /\ net = "none"
    /\ params = 0
    /\ epoch = 0
    /\ batch_i = 0
    /\ ops = << >>
    /\ train_log = << >>
    /\ train_modes = << >>
    /\ count = 0
    /\ min_acc = 0
    /\ saved = -1
    /\ scores = << >>
    /\ ckpt_writes = << >>
    /\ remote = NoMetrics
    /\ local = NoMetrics
    /\ eval_calls = 0
    /\ artifact = 0
    /\ error = "none"

\* main is entered with a configuration and a dataset split in two
Init ==
    /\ pc = "start"
    /\ model_name \in ModelNames
    /\ writer \in BOOLEAN
    /\ N_train_epochs \in 0..MaxEpochs
    /\ train_batches \in 0..MaxTrainBatches
    /\ val_batches \in 0..MaxMainValBatches
    /\ net_training = TRUE
    /\ IdleCollate
    /\ IdleEval
    /\ IdleMain

Next ==
    \/ InitNetwork
    \/ EpochHead
    \/ TrainMode
    \/ BatchHead
    \/ Forward
    \/ ComputeLoss
    \/ LogTrainLoss
    \/ ZeroGrad
    \/ Backward
    \/ OptimizerStep
    \/ EvalMode
    \/ TestEvalStart
    \/ EvalIter
    \/ EvalReturn
    \/ LogTestMetrics
    \/ Checkpoint
    \/ LogModel

Spec == Init /\ [][Next]_vars

FairSpec == Init /\ [][Next]_vars /\ WF_vars(Next)

\* test_eval called on a validation loader, the network in either mode
InitEval ==
    /\ pc = "test_eval"
    /\ val_batches \in 0..MaxValBatches
    /\ net_training \in BOOLEAN
    /\ model_name = "deepsets"
    /\ net = "deepsets"
    /\ writer = FALSE
    /\ N_train_epochs = 0
    /\ train_batches = 0
    /\ params = 0
    /\ epoch = 0
    /\ batch_i = 0
    /\ ops = << >>
    /\ train_log = << >>
    /\ train_modes = << >>
    /\ count = 0
    /\ min_acc = 0
    /\ saved = -1
    /\ scores = << >>
    /\ ckpt_writes = << >>
    /\ remote = NoMetrics
    /\ local = NoMetrics
    /\ eval_calls = 0
    /\ artifact = 0
    /\ error = "none"
    /\ IdleCollate
    /\ IdleEval

NextEval ==
    \/ TestEvalStart
    \/ EvalIter
    \/ EvalReturn

SpecEval == InitEval /\ [][NextEval]_vars

\* collate_feat called on a non-empty list of samples
InitCollate ==
    /\ pc = "collate"
    /\ \E n \in 1..MaxBatchSize :
         \E lens \in [1..n -> 0..MaxSeqLen] :
            batch = [i \in 1..n |-> Sample(i, lens[i])]
    /\ collated = NoBatch
    /\ val_batches = 0
    /\ model_name = "deepsets"
    /\ writer = FALSE
    /\ N_train_epochs = 0
    /\ train_batches = 0
    /\ net_training = TRUE
    /\ IdleEval
    /\ IdleMain

NextCollate ==
    \/ Collate
    \/ NextBatch

SpecCollate == InitCollate /\ [][NextCollate]_vars

-----------------------------------------------------------------------------
(* Properties of collate_feat, under SpecCollate *)

\* the input position of the sample whose true_correction stands in row i
RowTag(i) == collated.true_correction[i] - 10

\* the length the sample given at input position tag had
OrigLen(tag) == Len(batch[tag].features)

BatchLens == [i \in 1..Len(batch) |-> Len(batch[i].features)]

\* C1: for every non-empty batch pad_mask has one row per sample, in the
\* sorted order, and L_max columns, and pad_mask[i, l] is True exactly when
\* l >= L_i (0-based), L_i the original length of the sample at sorted
\* position i; one sample, or samples of equal length, give an all-False mask.
C1_PadMaskMarksPadding ==
    pc = "collated" =>
        LET N == Len(batch)
            Lmax == SeqMax(BatchLens)
        IN  /\ Len(collated.pad_mask) = N
            /\ {RowTag(i) : i \in 1..N} = 1..N
            /\ \A i \in 1..N :
                /\ Len(collated.pad_mask[i]) = Lmax
                /\ \A l \in 1..Lmax :
                     collated.pad_mask[i][l] <=> (l > OrigLen(RowTag(i)))
            /\ (\A i, j \in 1..N : BatchLens[i] = BatchLens[j]) =>
                 \A i \in 1..N : \A l \in 1..Lmax : ~collated.pad_mask[i][l]

\* lengths 1, 3, 2: the rows of the mask follow the sorted order 3, 2, 1
C1_Witness ==
    /\ pc = "collated"
    /\ BatchLens = << 1, 3, 2 >>
    /\ collated.pad_mask = << << FALSE, FALSE, FALSE >>,
                              << FALSE, FALSE, TRUE >>,
                              << FALSE, TRUE, TRUE >> >>

\* C2: the samples are ordered by non-increasing length, samples of equal
\* length keep their input order, and the columns of features, the rows of
\* pad_mask, true_correction and guess all follow this one order.
C2_StableDescendingOrder ==
    pc = "collated" =>
        LET N == Len(batch)
        IN  /\ Len(collated.true_correction) = N
            /\ Len(collated.guess) = N
            /\ {RowTag(i) : i \in 1..N} = 1..N
            /\ \A i, j \in 1..N :
                 i < j =>
                    \/ OrigLen(RowTag(i)) > OrigLen(RowTag(j))
                    \/ /\ OrigLen(RowTag(i)) = OrigLen(RowTag(j))
                       /\ RowTag(i) < RowTag(j)
            /\ \A i \in 1..N :
                /\ collated.guess[i] = batch[RowTag(i)].guess
                /\ \A l \in 1..Len(collated.features) :
                     collated.features[l][i] =
                        IF l <= OrigLen(RowTag(i)) THEN RowTag(i) ELSE 0
                /\ Cardinality({l \in 1..Len(collated.pad_mask[i]) :
                                  ~collated.pad_mask[i][l]}) = OrigLen(RowTag(i))

\* lengths 2, 3, 2: the second sample comes first, the two samples of
\* length 2 follow in their input order
C2_Witness ==
    /\ pc = "collated"
    /\ BatchLens = << 2, 3, 2 >>
    /\ collated.true_correction = << 12, 11, 13 >>
    /\ collated.guess = << 22, 21, 23 >>

\* C3: collate_feat returns no batch when a sample of the input has a
\* feature sequence of length 0.
C3_RejectsZeroLength ==
    (\E i \in 1..Len(batch) : Len(batch[i].features) = 0) => pc # "collated"

-----------------------------------------------------------------------------
(* Properties of test_eval, under SpecEval *)

\* C4: on a source of M >= 1 batches per pass test_eval never fails, the
\* k-th evaluated batch (k from 0) is batch k mod M, exactly 100 batches are
\* evaluated when it returns, and the mean loss is the accumulated loss of
\* these 100 batches over 100.
C4_EvaluatesHundredWrapping ==
    val_batches >= 1 =>
        /\ pc # "failed"
        /\ Len(stats_val) = eval_i
        /\ eval_i <= EvalIters
        /\ \A k \in 1..Len(stats_val) : stats_val[k] = (k - 1) % val_batches
        /\ pc = "eval_return" =>
            /\ Len(stats_val) = 100
            /\ eval_ret.n = 100
            /\ eval_ret.loss_sum =
                 SumSeq([k \in 1..100 |-> Loss((k - 1) % val_batches)])

\* a source of 3 batches, restarted 33 times: the last batch evaluated is 0
C4_Witness ==
    /\ pc = "eval_return"
    /\ val_batches = 3
    /\ Len(stats_val) = 100
    /\ stats_val[3] = 2
    /\ stats_val[4] = 0
    /\ stats_val[100] = 0

-----------------------------------------------------------------------------
(* Properties of main, under Spec and FairSpec *)

\* C5: a checkpoint is written at the end of an epoch exactly when the
\* epoch's score is strictly lower than the score of every earlier epoch (so
\* the first epoch always writes), and after a write min_acc is that score.
C5_WritesIffStrictlyBest ==
    /\ Len(ckpt_writes) = Len(scores)
    /\ \A e \in 1..Len(scores) :
         ckpt_writes[e] <=> (\A d \in 1..(e - 1) : scores[e] < scores[d])
    /\ (Len(scores) > 0 /\ pc = "epoch_head" /\ ckpt_writes[Len(scores)]) =>
         min_acc = scores[Len(scores)]

\* C6: whatever writer is, every training batch sends its loss to the
\* remote service and every epoch sends the validation loss and each
\* per-dimension accuracy to it.
C6_RemoteAlwaysLogged ==
    pc = "checkpoint" =>
        /\ remote.train_loss = (epoch + 1) * train_batches
        /\ remote.test_loss = epoch + 1
        /\ remote.test_acc = NumDims * (epoch + 1)

\* C7: with a model_name other than set_transformer and deepsets main fails
\* with the ValueError before anything else happens: no training batch, no
\* parameter update, no evaluation, no checkpoint, no model artifact.
C7_UnsupportedModelFailsFirst ==
    model_name \notin SupportedModels =>
        /\ pc \in {"start", "failed"}
        /\ pc = "failed" => error = "ValueError"
        /\ net = "none"
        /\ train_modes = << >>
        /\ train_log = << >>
        /\ ops = << >>
        /\ params = 0
        /\ eval_calls = 0
        /\ saved = -1
        /\ artifact = 0

C7_Witness ==
    /\ pc = "failed"
    /\ model_name = "lstm"
    /\ error = "ValueError"
    /\ train_batches > 0

\* the steps of a batch other than the logging of its loss
TrainSteps(o) ==
    LET NotLog(x) == x # "log"
    IN  SelectSeq(o, NotLog)

\* C8 as stated: every batch's steps are zero gradients, forward pass,
\* loss, backpropagation, optimizer step, in this order.
C8_ZeroGradFirst ==
    \A k \in 1..Len(train_log) :
        TrainSteps(train_log[k].ops) =
            << "zero_grad", "forward", "loss", "backward", "step" >>

\* C8 amended: in every epoch each training batch is processed exactly once
\* and causes exactly one parameter update, its loss is logged once, and its
\* steps are forward pass, loss, logging, zero gradients, backpropagation,
\* optimizer step, in this order.
C8_OneUpdatePerBatch ==
    /\ Len(train_log) = batch_i
    /\ batch_i <= train_batches
    /\ \A k \in 1..Len(train_log) :
        /\ train_log[k].batch = k - 1
        /\ train_log[k].ops =
             << "forward", "loss", "log", "zero_grad", "backward", "step" >>
    /\ pc \in {"eval_mode", "test_eval", "eval_iter", "eval_return",
               "checkpoint"} =>
        /\ Len(train_log) = train_batches
        /\ params = (epoch + 1) * train_batches
        /\ remote.train_loss = (epoch + 1) * train_batches
        /\ count = (epoch + 1) * train_batches

\* the second epoch's training pass is complete: two batches, four updates
C8_Witness ==
    /\ pc = "eval_mode"
    /\ epoch = 1
    /\ train_batches = 2
    /\ Len(train_log) = 2
    /\ params = 4

\* C9: the network is in evaluation mode at every forward pass of the
\* Evaluator and when the Evaluator has returned, and in training mode at
\* every forward pass of a training batch, in every epoch.
C9_ModesPerPhase ==
    /\ \A i \in 1..Len(eval_modes) : eval_modes[i] = FALSE
    /\ \A i \in 1..Len(train_modes) : train_modes[i] = TRUE
    /\ pc \in {"eval_iter", "eval_return"} => ~net_training
    /\ pc = "forward" => net_training

\* the first training forward pass of the epoch that follows an evaluation
C9_Witness ==
    /\ pc = "loss"
    /\ epoch = 1
    /\ Len(eval_modes) = EvalIters
    /\ train_modes = << TRUE >>

RunsClean ==
    /\ model_name \in SupportedModels
    /\ train_batches >= 1
    /\ val_batches >= 1

C10_EpochStructure ==
    RunsClean =>
        /\ pc # "failed"
        /\ epoch <= N_train_epochs
        /\ Len(scores) = epoch
        /\ Len(ckpt_writes) = epoch
        /\ eval_calls =
             epoch + (IF pc \in {"eval_iter", "eval_return", "checkpoint"}
                      THEN 1 ELSE 0)
        /\ pc \in {"eval_mode", "test_eval", "eval_iter", "eval_return",
                   "checkpoint"} => Len(train_log) = train_batches
        /\ pc = "eval_return" => eval_i = EvalIters
        /\ artifact = (IF pc = "done" THEN 1 ELSE 0)
        /\ pc \in {"log_model", "done"} => epoch = N_train_epochs

=============================================================================
